---- MODULE Spec2Model ----
(***************************************************************************)
(* PriorityTableExtensionBase (reverb/cc/table_extensions/base.cc): the    *)
(* registration protocol binding an extension to one Table, and the hook   *)
(* dispatch On* -> ApplyOn*.                                               *)
(*                                                                         *)
(* Pointers are small integers: NULL is nullptr, 1..NumTables are the      *)
(* addresses of the Table objects, and the absl::Mutex* passed as the      *)
(* first argument of UnregisterTable and of the hooks is NULL or the       *)
(* number of the table whose mu_ it points to.                             *)
(***************************************************************************)
EXTENDS Integers, Sequences, FiniteSets, TLC

NumTables == 2
NumExts == 2
NumItems == 2
NumThreads == 2

NULL == 0
Tables == 1..NumTables
Ptrs == {NULL} \cup Tables
Exts == 1..NumExts
Items == 1..NumItems
NoItem == 0

\* Table::name(): every table has its own name.
TableName(t) == "table" \o ToString(t)
\* What a read through a null Table* may yield when it does not crash.
Garbage == "?"

VARIABLES
  table_,   \* table_[e]: the Table* member of extension e
  aborted,  \* a REVERB_CHECK failed (or the process crashed): nothing runs any more
  last      \* the most recent call: its arguments, the members before it, its result

\* State of the threads that call the extensions, and of the tables.
VARIABLES
  pc,           \* pc[t]: where thread t is: "idle", a line of a method, an ApplyOn* body
  frame,        \* frame[t]: the arguments of the call thread t is in
  mu_,          \* mu_[T]: the thread holding table T's mutex, or NoThread
  extensions_,  \* extensions_[T]: the extensions table T has registered
  lastReg,      \* lastReg[e]: the table of e's most recent successful RegisterTable
  lastUnreg     \* lastUnreg[e]: an UnregisterTable of e has returned since then

threadVars == <<pc, frame, mu_, extensions_, lastReg, lastUnreg>>
vars == <<table_, aborted, last, pc, frame, mu_, extensions_, lastReg, lastUnreg>>

Threads == 1..NumThreads
NoThread == 0
NoFrame == [ext |-> 0, table |-> NULL, mu |-> NULL, item |-> NoItem]

----------------------------------------------------------------------------
(* RegisterTable *)

\* Faulty variant: the test is missing, every RegisterTable goes on to bind.
AlreadyRegistered_Never(tp) == FALSE

\* `if (table_)`
AlreadyRegistered(tp) == tp # NULL

\* The arguments of errors::FailedPrecondition, in the order they are
\* concatenated: the requested table and its name, then what the message
\* reports as the table the extension is registered with and its name.
FailedPrecondition(table, tp, name) ==
  [code |-> "FailedPrecondition",
   requested  |-> [ptr |-> table, name |-> name],
   registered |-> [ptr |-> tp,    name |-> name]]

OkStatus == [code |-> "OK"]

\* A call of a method of a Table object: `obj->fn()`.
TableCall(obj, fn) == [obj |-> obj, fn |-> fn]

\* The outcomes of RegisterTable(table) on an extension whose member is tp:
\* the new member, the returned Status, whether the process died, and the
\* Table methods the call invoked.
\* table->name() with table == nullptr is undefined: it crashes or reads
\* garbage.
RegisterTableFail(tp, table) ==
  IF table # NULL
    THEN {[table_ |-> tp, ret |-> FailedPrecondition(table, tp, TableName(table)),
           aborted |-> FALSE,
           calls |-> << TableCall(table, "name"), TableCall(table, "name") >>]}
    ELSE {[table_ |-> tp, ret |-> FailedPrecondition(table, tp, Garbage),
           aborted |-> FALSE,
           calls |-> << TableCall(table, "name"), TableCall(table, "name") >>],
          [table_ |-> tp, ret |-> [code |-> "crash"], aborted |-> TRUE,
           calls |-> << TableCall(table, "name") >>]}

\* Faulty variant: reports success without `table_ = table`.
RegisterTableBind_NoAssign(tp, table) ==
  {[table_ |-> tp, ret |-> OkStatus, aborted |-> FALSE, calls |-> << >>]}

\* Faulty variant: the success path logs the table's name.
RegisterTableBind_LogName(tp, table) ==
  {[table_ |-> table, ret |-> OkStatus, aborted |-> FALSE,
    calls |-> << TableCall(table, "name") >>]}

RegisterTableBind(tp, table) ==
  {[table_ |-> table, ret |-> OkStatus, aborted |-> FALSE, calls |-> << >>]}

\* Faulty variant: registering the table already bound is accepted again
\* (`if (table_ && table_ != table)`).
RegisterTableOut_Idempotent(tp, table) ==
  IF AlreadyRegistered(tp) /\ tp # table
    THEN RegisterTableFail(tp, table)
    ELSE RegisterTableBind(tp, table)

\* Faulty variant: no `if (table_)` test, the new table replaces the old one.
RegisterTableOut_Rebind(tp, table) == RegisterTableBind(tp, table)

RegisterTableOut(tp, table) ==
  IF AlreadyRegistered(tp)
    THEN RegisterTableFail(tp, table)
    ELSE RegisterTableBind(tp, table)

----------------------------------------------------------------------------
(* UnregisterTable *)

\* Faulty variant: the check is compiled out.
CheckEq_Off(table, tp) == TRUE

\* Faulty variant: an unbound extension accepts any UnregisterTable.
CheckEq_UnboundOk(table, tp) == table = tp \/ tp = NULL

\* REVERB_CHECK_EQ(table, table_)
CheckEq(table, tp) == table = tp

\* Faulty variant: returns without `table_ = nullptr`.
UnregisterTableOut_NoClear(tp, mu, table) ==
  IF CheckEq(table, tp)
    THEN [table_ |-> tp, ret |-> [code |-> "void"], aborted |-> FALSE,
          calls |-> << >>]
    ELSE [table_ |-> tp, ret |-> [code |-> "abort"], aborted |-> TRUE,
          calls |-> << >>]

UnregisterTableOut(tp, mu, table) ==
  IF CheckEq(table, tp)
    THEN [table_ |-> NULL, ret |-> [code |-> "void"], aborted |-> FALSE,
          calls |-> << >>]
    ELSE [table_ |-> tp, ret |-> [code |-> "abort"], aborted |-> TRUE,
          calls |-> << >>]

----------------------------------------------------------------------------
(* Hooks.  The body of each On* is the sequence of virtual calls it makes; *)
(* the default ApplyOn* bodies are empty and map the extension's state,    *)
(* its table_ member, to itself.                                           *)

Call(fn, item) == [item |-> item, fn |-> fn]

ApplyPcs ==
  {"ApplyOnDelete", "ApplyOnInsert", "ApplyOnReset", "ApplyOnUpdate", "ApplyOnSample"}

\* The calls of a hook body that are not to the extension's own ApplyOn*.
IsForeignCall(c) == c.fn \notin ApplyPcs
ForeignCalls(body) == SelectSeq(body, IsForeignCall)

\* Faulty variant: OnUpdate dispatches to the insert hook.
OnUpdateBody_Insert(mu, item) == << Call("ApplyOnInsert", item) >>

\* Faulty variant: OnSample dispatches only when mu is a mutex that is held.
OnSampleBody_IfHeld(mu, item) ==
  IF mu = NULL \/ mu_[mu] = NoThread
    THEN << >>
    ELSE << Call("ApplyOnSample", item) >>

OnDeleteBody(mu, item) == << Call("ApplyOnDelete", item) >>
OnInsertBody(mu, item) == << Call("ApplyOnInsert", item) >>
OnResetBody(mu)        == << Call("ApplyOnReset", NoItem) >>
OnUpdateBody(mu, item) == << Call("ApplyOnUpdate", item) >>
OnSampleBody(mu, item) == << Call("ApplyOnSample", item) >>

\* Faulty variant: the default reset hook drops the binding.
ApplyOnReset_Clear(tp) == NULL

\* Faulty variant: the default insert hook drops the binding.
ApplyOnInsert_Clear(tp, item) == NULL

ApplyOnDelete(tp, item) == tp
ApplyOnInsert(tp, item) == tp
ApplyOnReset(tp)        == tp
ApplyOnUpdate(tp, item) == tp
ApplyOnSample(tp, item) == tp

\* One virtual call on an extension with no overrides.
ApplyDefault(tp, c) ==
  CASE c.fn = "ApplyOnDelete" -> ApplyOnDelete(tp, c.item)
    [] c.fn = "ApplyOnInsert" -> ApplyOnInsert(tp, c.item)
    [] c.fn = "ApplyOnReset"  -> ApplyOnReset(tp)
    [] c.fn = "ApplyOnUpdate" -> ApplyOnUpdate(tp, c.item)
    [] c.fn = "ApplyOnSample" -> ApplyOnSample(tp, c.item)

RECURSIVE RunBody(_, _)
RunBody(tp, body) ==
  IF body = << >> THEN tp ELSE RunBody(ApplyDefault(tp, Head(body)), Tail(body))

----------------------------------------------------------------------------
(* The record of the most recent call.  chain follows the pattern          *)
(* Register(T) ok; Unregister(T); Register(T2) over consecutive calls on   *)
(* one extension: 1 after a successful Register of a table, 2 after an     *)
(* Unregister of that same table that directly follows it, 3 after a       *)
(* Register of a table that directly follows that; from is the table the  *)
(* pattern's latest Register bound or its Unregister unbound.  tcalls are  *)
(* the calls the method made to objects other than the extension.          *)

NoCall ==
  [op |-> "none", ext |-> 0, table |-> NULL, mu |-> NULL, item |-> NoItem,
   pre |-> [e \in Exts |-> NULL], ret |-> [code |-> "none"],
   applied |-> << >>, chain |-> 0, from |-> NULL, tcalls |-> << >>]

RegisterChain(e, table, ret) ==
  IF last.chain = 2 /\ last.ext = e /\ table \in Tables THEN 3
  ELSE IF ret.code = "OK" /\ table \in Tables THEN 1
  ELSE 0

RegisterFrom(e, table, ret) ==
  IF RegisterChain(e, table, ret) = 3 THEN last.from
  ELSE IF RegisterChain(e, table, ret) = 1 THEN table
  ELSE NULL

UnregisterChain(e, table) ==
  IF /\ last.chain \in {1, 3}
     /\ last.ret.code = "OK"
     /\ last.ext = e
     /\ last.table = table
    THEN 2
    ELSE 0

UnregisterFrom(e, table) ==
  IF UnregisterChain(e, table) = 2 THEN table ELSE NULL

----------------------------------------------------------------------------
(* Actions: one per method, the whole call in one step. *)

\* Faulty variant: table_ shared by all instances (a static member).
StoreTable_Static(tbl, e, v) == [x \in DOMAIN tbl |-> v]

\* `table_ = v` in extension e.
StoreTable(tbl, e, v) == [tbl EXCEPT ![e] = v]

RegisterTable(e, table) ==
  /\ ~aborted
  /\ \E o \in RegisterTableOut(table_[e], table) :
       /\ table_' = StoreTable(table_, e, o.table_)
       /\ aborted' = o.aborted
       /\ last' = [op |-> "RegisterTable", ext |-> e, table |-> table,
                   mu |-> NULL, item |-> NoItem, pre |-> table_, ret |-> o.ret,
                   applied |-> << >>, chain |-> RegisterChain(e, table, o.ret),
                   from |-> RegisterFrom(e, table, o.ret), tcalls |-> o.calls]
  /\ UNCHANGED threadVars

UnregisterTable(e, mu, table) ==
  /\ ~aborted
  /\ LET o == UnregisterTableOut(table_[e], mu, table) IN
       /\ table_' = StoreTable(table_, e, o.table_)
       /\ aborted' = o.aborted
       /\ last' = [op |-> "UnregisterTable", ext |-> e, table |-> table,
                   mu |-> mu, item |-> NoItem, pre |-> table_, ret |-> o.ret,
                   applied |-> << >>, chain |-> UnregisterChain(e, table),
                   from |-> UnregisterFrom(e, table), tcalls |-> o.calls]
  /\ UNCHANGED threadVars

\* Faulty variant: a hook on an unbound extension returns without
\* dispatching.
Hook_BoundOnly(op, e, mu, item, body) ==
  /\ ~aborted
  /\ UNCHANGED <<table_, aborted>>
  /\ last' = [op |-> op, ext |-> e, table |-> NULL, mu |-> mu, item |-> item,
              pre |-> table_, ret |-> [code |-> "void"],
              applied |-> IF table_[e] = NULL THEN << >> ELSE body,
              chain |-> 0, from |-> NULL, tcalls |-> << >>]
  /\ UNCHANGED threadVars

\* A hook call: run the virtual calls of its body on e, return void.
Hook(op, e, mu, item, body) ==
  /\ ~aborted
  /\ table_' = StoreTable(table_, e, RunBody(table_[e], body))
  /\ aborted' = aborted
  /\ last' = [op |-> op, ext |-> e, table |-> NULL, mu |-> mu, item |-> item,
              pre |-> table_, ret |-> [code |-> "void"], applied |-> body,
              chain |-> 0, from |-> NULL, tcalls |-> ForeignCalls(body)]
  /\ UNCHANGED threadVars

OnDelete(e, mu, item) == Hook("OnDelete", e, mu, item, OnDeleteBody(mu, item))
OnInsert(e, mu, item) == Hook("OnInsert", e, mu, item, OnInsertBody(mu, item))
OnReset(e, mu)        == Hook("OnReset", e, mu, NoItem, OnResetBody(mu))
OnUpdate(e, mu, item) == Hook("OnUpdate", e, mu, item, OnUpdateBody(mu, item))
OnSample(e, mu, item) == Hook("OnSample", e, mu, item, OnSampleBody(mu, item))

Init ==
  /\ table_ = [e \in Exts |-> NULL]
  /\ aborted = FALSE
  /\ last = NoCall
  /\ pc = [t \in Threads |-> "idle"]
  /\ frame = [t \in Threads |-> NoFrame]
  /\ mu_ = [T \in Tables |-> NoThread]
  /\ extensions_ = [T \in Tables |-> {}]
  /\ lastReg = [e \in Exts |-> NULL]
  /\ lastUnreg = [e \in Exts |-> FALSE]

Next ==
  \/ \E e \in Exts, table \in Ptrs : RegisterTable(e, table)
  \/ \E e \in Exts, mu \in Ptrs, table \in Ptrs : UnregisterTable(e, mu, table)
  \/ \E e \in Exts, mu \in Ptrs, item \in Items : OnDelete(e, mu, item)
  \/ \E e \in Exts, mu \in Ptrs, item \in Items : OnInsert(e, mu, item)
  \/ \E e \in Exts, mu \in Ptrs : OnReset(e, mu)
  \/ \E e \in Exts, mu \in Ptrs, item \in Items : OnUpdate(e, mu, item)
  \/ \E e \in Exts, mu \in Ptrs, item \in Items : OnSample(e, mu, item)

Spec == Init /\ [][Next]_vars

----------------------------------------------------------------------------
(* The same methods statement by statement, run by threads.  pc[t] is the  *)
(* line of base.cc thread t is about to execute, or the ApplyOn* body it   *)
(* is in; frame[t] holds the arguments of its call.                        *)

Enter(t, label, e, table, mu, item) ==
  /\ ~aborted
  /\ pc[t] = "idle"
  /\ pc' = [pc EXCEPT ![t] = label]
  /\ frame' = [frame EXCEPT ![t] =
                 [ext |-> e, table |-> table, mu |-> mu, item |-> item]]

Return(t) ==
  /\ pc' = [pc EXCEPT ![t] = "idle"]
  /\ frame' = [frame EXCEPT ![t] = NoFrame]

\* An On* method is entered and makes its virtual call: the thread is in
\* the ApplyOn* body.
EnterHook(t, e, mu, body) ==
  Enter(t, Head(body).fn, e, NULL, mu, Head(body).item)

\* line 26: `if (table_)`, and lines 27-30 when it is set.
RegisterTable_26(t) ==
  /\ ~aborted
  /\ pc[t] = "RegisterTable:26"
  /\ IF AlreadyRegistered(table_[frame[t].ext])
       THEN \E o \in RegisterTableFail(table_[frame[t].ext], frame[t].table) :
              aborted' = o.aborted /\ Return(t)
       ELSE /\ pc' = [pc EXCEPT ![t] = "RegisterTable:32"]
            /\ UNCHANGED <<frame, aborted>>
  /\ UNCHANGED <<table_, last, mu_, extensions_, lastReg, lastUnreg>>

\* lines 32-33: `table_ = table; return OK`.
RegisterTable_32(t) ==
  /\ ~aborted
  /\ pc[t] = "RegisterTable:32"
  /\ \E o \in RegisterTableBind(table_[frame[t].ext], frame[t].table) :
       /\ table_' = StoreTable(table_, frame[t].ext, o.table_)
       /\ aborted' = o.aborted
  /\ lastReg' = [lastReg EXCEPT ![frame[t].ext] = frame[t].table]
  /\ lastUnreg' = [lastUnreg EXCEPT ![frame[t].ext] = FALSE]
  /\ Return(t)
  /\ UNCHANGED <<last, mu_, extensions_>>

\* lines 38-39: REVERB_CHECK_EQ(table, table_).
UnregisterTable_38(t) ==
  /\ ~aborted
  /\ pc[t] = "UnregisterTable:38"
  /\ IF CheckEq(frame[t].table, table_[frame[t].ext])
       THEN pc' = [pc EXCEPT ![t] = "UnregisterTable:40"] /\ aborted' = aborted
       ELSE pc' = pc /\ aborted' = TRUE
  /\ UNCHANGED <<frame, table_, last, mu_, extensions_, lastReg, lastUnreg>>

\* line 40: `table_ = nullptr`.
UnregisterTable_40(t) ==
  /\ ~aborted
  /\ pc[t] = "UnregisterTable:40"
  /\ table_' = StoreTable(table_, frame[t].ext, NULL)
  /\ lastUnreg' = [lastUnreg EXCEPT ![frame[t].ext] = TRUE]
  /\ Return(t)
  /\ UNCHANGED <<aborted, last, mu_, extensions_, lastReg>>

\* The ApplyOn* body the thread is in runs (the default: nothing) and the
\* On* method returns.
ApplyReturn(t) ==
  /\ ~aborted
  /\ pc[t] \in ApplyPcs
  /\ table_' = StoreTable(table_, frame[t].ext,
                          ApplyDefault(table_[frame[t].ext],
                                       Call(pc[t], frame[t].item)))
  /\ Return(t)
  /\ UNCHANGED <<aborted, last, mu_, extensions_, lastReg, lastUnreg>>

----------------------------------------------------------------------------
(* N independent (table, extension) pairs: thread i exercises extension i  *)
(* with table i and that table's mutex, the threads interleaved statement  *)
(* by statement.                                                           *)

Pairs == (Threads \cap Tables) \cap Exts

PairFrame == <<table_, aborted, last, mu_, extensions_, lastReg, lastUnreg>>

P_RegisterTable(i) ==
  Enter(i, "RegisterTable:26", i, i, NULL, NoItem) /\ UNCHANGED PairFrame
P_UnregisterTable(i) ==
  Enter(i, "UnregisterTable:38", i, i, i, NoItem) /\ UNCHANGED PairFrame
P_OnDelete(i) ==
  \E item \in Items : EnterHook(i, i, i, OnDeleteBody(i, item)) /\ UNCHANGED PairFrame
P_OnInsert(i) ==
  \E item \in Items : EnterHook(i, i, i, OnInsertBody(i, item)) /\ UNCHANGED PairFrame
P_OnReset(i) ==
  EnterHook(i, i, i, OnResetBody(i)) /\ UNCHANGED PairFrame
P_OnUpdate(i) ==
  \E item \in Items : EnterHook(i, i, i, OnUpdateBody(i, item)) /\ UNCHANGED PairFrame
P_OnSample(i) ==
  \E item \in Items : EnterHook(i, i, i, OnSampleBody(i, item)) /\ UNCHANGED PairFrame

NextPairs ==
  \/ \E i \in Pairs : P_RegisterTable(i)
  \/ \E i \in Pairs : P_UnregisterTable(i)
  \/ \E i \in Pairs : P_OnDelete(i)
  \/ \E i \in Pairs : P_OnInsert(i)
  \/ \E i \in Pairs : P_OnReset(i)
  \/ \E i \in Pairs : P_OnUpdate(i)
  \/ \E i \in Pairs : P_OnSample(i)
  \/ \E i \in Pairs : RegisterTable_26(i)
  \/ \E i \in Pairs : RegisterTable_32(i)
  \/ \E i \in Pairs : UnregisterTable_38(i)
  \/ \E i \in Pairs : UnregisterTable_40(i)
  \/ \E i \in Pairs : ApplyReturn(i)

SpecPairs == Init /\ [][NextPairs]_vars

----------------------------------------------------------------------------
(* The tables as callers.  A table operation runs on some thread with the  *)
(* table's mutex mu_ held for its whole duration; it calls the hooks of    *)
(* the extensions the table has registered, passing &mu_, and it registers *)
(* and unregisters extensions under the same mutex.  Registration changes  *)
(* are serialized by the caller, so RegisterTable and UnregisterTable run  *)
(* as single steps here (the record of the most recent call is not kept).  *)

Holding(t) == {T \in Tables : mu_[T] = t}

Tb_Lock(t, T) ==
  /\ ~aborted
  /\ pc[t] = "idle"
  /\ Holding(t) = {}
  /\ mu_[T] = NoThread
  /\ mu_' = [mu_ EXCEPT ![T] = t]
  /\ UNCHANGED <<table_, aborted, last, pc, frame, extensions_, lastReg, lastUnreg>>

Tb_Unlock(t, T) ==
  /\ ~aborted
  /\ pc[t] = "idle"
  /\ mu_[T] = t
  /\ mu_' = [mu_ EXCEPT ![T] = NoThread]
  /\ UNCHANGED <<table_, aborted, last, pc, frame, extensions_, lastReg, lastUnreg>>

\* Table T registers extension e and keeps it when RegisterTable returned OK.
Tb_Attach(t, T, e) ==
  /\ pc[t] = "idle"
  /\ mu_[T] = t
  /\ ~aborted
  /\ \E o \in RegisterTableOut(table_[e], T) :
       /\ table_' = StoreTable(table_, e, o.table_)
       /\ aborted' = o.aborted
       /\ extensions_' = IF o.ret.code = "OK"
                           THEN [extensions_ EXCEPT ![T] = @ \cup {e}]
                           ELSE extensions_
  /\ UNCHANGED <<last, pc, frame, mu_, lastReg, lastUnreg>>

\* Table T unregisters one of its extensions.
Tb_Detach(t, T, e) ==
  /\ pc[t] = "idle"
  /\ mu_[T] = t
  /\ e \in extensions_[T]
  /\ ~aborted
  /\ LET o == UnregisterTableOut(table_[e], T, T) IN
       /\ table_' = StoreTable(table_, e, o.table_)
       /\ aborted' = o.aborted
  /\ extensions_' = [extensions_ EXCEPT ![T] = @ \ {e}]
  /\ UNCHANGED <<last, pc, frame, mu_, lastReg, lastUnreg>>

\* A mutating operation of table T calls a hook of one of its extensions.
Tb_Hook(t, T, e, body) ==
  /\ mu_[T] = t
  /\ e \in extensions_[T]
  /\ EnterHook(t, e, T, body)
  /\ UNCHANGED <<table_, aborted, last, mu_, extensions_, lastReg, lastUnreg>>

Tb_OnDelete(t, T, e, item) == Tb_Hook(t, T, e, OnDeleteBody(T, item))
Tb_OnInsert(t, T, e, item) == Tb_Hook(t, T, e, OnInsertBody(T, item))
Tb_OnReset(t, T, e)        == Tb_Hook(t, T, e, OnResetBody(T))
Tb_OnUpdate(t, T, e, item) == Tb_Hook(t, T, e, OnUpdateBody(T, item))
Tb_OnSample(t, T, e, item) == Tb_Hook(t, T, e, OnSampleBody(T, item))

NextTable ==
  \/ \E t \in Threads, T \in Tables : Tb_Lock(t, T)
  \/ \E t \in Threads, T \in Tables : Tb_Unlock(t, T)
  \/ \E t \in Threads, T \in Tables, e \in Exts : Tb_Attach(t, T, e)
  \/ \E t \in Threads, T \in Tables, e \in Exts : Tb_Detach(t, T, e)
  \/ \E t \in Threads, T \in Tables, e \in Exts, item \in Items : Tb_OnDelete(t, T, e, item)
  \/ \E t \in Threads, T \in Tables, e \in Exts, item \in Items : Tb_OnInsert(t, T, e, item)
  \/ \E t \in Threads, T \in Tables, e \in Exts : Tb_OnReset(t, T, e)
  \/ \E t \in Threads, T \in Tables, e \in Exts, item \in Items : Tb_OnUpdate(t, T, e, item)
  \/ \E t \in Threads, T \in Tables, e \in Exts, item \in Items : Tb_OnSample(t, T, e, item)
  \/ \E t \in Threads : ApplyReturn(t)

SpecTable == Init /\ [][NextTable]_vars

----------------------------------------------------------------------------
(* Unserialized registration: each thread makes one RegisterTable call, of *)
(* any table on any extension, the calls interleaved statement by          *)
(* statement with nothing held.  A thread that has returned stays at       *)
(* "returned" with the Status code it got in its frame.  The unsynchronized *)
(* read of table_ at line 26 sees the value before or after a concurrent   *)
(* write at line 32; both orders are interleavings of the two steps.       *)

RaceFrame == <<table_, aborted, last, mu_, extensions_, lastReg, lastUnreg>>

Finish(t, code) ==
  /\ pc' = [pc EXCEPT ![t] = "returned"]
  /\ frame' = [frame EXCEPT ![t] =
                 [ext |-> frame[t].ext, table |-> frame[t].table,
                  mu |-> frame[t].mu, item |-> frame[t].item, ret |-> code]]

Race_Call(t, e, T) ==
  Enter(t, "RegisterTable:26", e, T, NULL, NoItem) /\ UNCHANGED RaceFrame

\* line 26: `if (table_)`, and lines 27-30 when it is set.
Race_26(t) ==
  /\ ~aborted
  /\ pc[t] = "RegisterTable:26"
  /\ IF AlreadyRegistered(table_[frame[t].ext])
       THEN \E o \in RegisterTableFail(table_[frame[t].ext], frame[t].table) :
              aborted' = o.aborted /\ Finish(t, o.ret.code)
       ELSE /\ pc' = [pc EXCEPT ![t] = "RegisterTable:32"]
            /\ UNCHANGED <<frame, aborted>>
  /\ UNCHANGED <<table_, last, mu_, extensions_, lastReg, lastUnreg>>

\* lines 32-33: `table_ = table; return OK`.
Race_32(t) ==
  /\ ~aborted
  /\ pc[t] = "RegisterTable:32"
  /\ \E o \in RegisterTableBind(table_[frame[t].ext], frame[t].table) :
       /\ table_' = StoreTable(table_, frame[t].ext, o.table_)
       /\ aborted' = o.aborted
       /\ Finish(t, o.ret.code)
  /\ UNCHANGED <<last, mu_, extensions_, lastReg, lastUnreg>>

NextRace ==
  \/ \E t \in Threads, e \in Exts, T \in Tables : Race_Call(t, e, T)
  \/ \E t \in Threads : Race_26(t)
  \/ \E t \in Threads : Race_32(t)

SpecRace == Init /\ [][NextRace]_vars

----------------------------------------------------------------------------
(* Properties of single calls, read off the record of the most recent call *)
(* (Spec runs every call as one step, so in every state table_ and aborted *)
(* are what that call left).                                               *)

HookOps == {"OnDelete", "OnInsert", "OnReset", "OnUpdate", "OnSample"}

\* C1: RegisterTable(T) on an extension whose table_ is null, T a table,
\* returns OK and leaves table_ = T.
C1_RegisterUnbound ==
  (last.op = "RegisterTable" /\ last.pre[last.ext] = NULL /\ last.table \in Tables)
    => /\ last.ret.code = "OK"
       /\ table_[last.ext] = last.table
       /\ ~aborted

C1_Witness ==
  /\ last.op = "RegisterTable"
  /\ last.pre[last.ext] = NULL
  /\ last.table = NumTables
  /\ last.ret.code = "OK"

\* C2: RegisterTable(T2) on an extension bound to T1 returns
\* FailedPrecondition, whether T2 = T1 or not, and table_ is still T1.
C2_RegisterBound ==
  (last.op = "RegisterTable" /\ last.pre[last.ext] \in Tables /\ last.table \in Tables)
    => /\ last.ret.code = "FailedPrecondition"
       /\ table_[last.ext] = last.pre[last.ext]
       /\ ~aborted

C2_Witness ==
  /\ last.op = "RegisterTable"
  /\ last.pre[last.ext] \in Tables
  /\ last.table \in Tables \ {last.pre[last.ext]}
  /\ last.ret.code = "FailedPrecondition"

\* C3: UnregisterTable(mu, T2) on an extension bound to T1 # T2 aborts the
\* process: it does not return, and table_ is not cleared (it stays T1, and
\* nothing runs after the abort).
C3_UnregisterMismatch ==
  /\ (last.op = "UnregisterTable" /\ last.pre[last.ext] \in Tables
        /\ last.table \in Tables /\ last.table # last.pre[last.ext])
       => /\ aborted
          /\ last.ret.code = "abort"
          /\ table_[last.ext] = last.pre[last.ext]
  /\ aborted => ~ ENABLED Next

C3_Witness ==
  /\ last.op = "UnregisterTable"
  /\ last.pre[last.ext] \in Tables
  /\ last.table \in Tables \ {last.pre[last.ext]}
  /\ aborted

\* C4: after RegisterTable(T) ok and then UnregisterTable(mu, T) the
\* extension is unbound; a RegisterTable(T2) that follows succeeds and binds
\* T2, for any table T2; and short of an abort there is no state the cycle
\* cannot go on from: an unbound extension can be bound to any table, a bound
\* one can be unbound.
C4_Cycle ==
  /\ last.chain = 2
       => /\ last.ret.code = "void"
          /\ table_[last.ext] = NULL
          /\ ~aborted
  /\ last.chain = 3
       => /\ last.ret.code = "OK"
          /\ table_[last.ext] = last.table
          /\ ~aborted
  /\ ~aborted =>
       \A e \in Exts :
         IF table_[e] = NULL
           THEN \A t \in Tables :
                  ENABLED (RegisterTable(e, t) /\ table_'[e] = t /\ ~aborted')
           ELSE \A mu \in Ptrs :
                  ENABLED (UnregisterTable(e, mu, table_[e])
                             /\ table_'[e] = NULL /\ ~aborted')

C4_Witness ==
  /\ last.chain = 3
  /\ last.ret.code = "OK"
  /\ last.table # last.from

\* C5: an extension is bound to at most one table (table_[e] is null or one
\* table), and a bound extension's binding changes only to null, by an
\* UnregisterTable on it: never directly from one table to another.
C5_NoDirectRebind ==
  /\ [](table_ \in [Exts -> Ptrs])
  /\ [][\A e \in Exts :
          (table_[e] # NULL /\ table_'[e] # table_[e])
            => /\ table_'[e] = NULL
               /\ last'.op = "UnregisterTable"
               /\ last'.ext = e]_vars

C5_Witness ==
  /\ last.chain = 3
  /\ last.from \in Tables \ {last.table}
  /\ table_[last.ext] = last.table

\* C6: OnInsert/OnDelete/OnUpdate/OnSample(mu, item) make exactly one
\* virtual call, to the ApplyOn* of their own kind with that item, and
\* OnReset(mu) exactly one to ApplyOnReset, whatever the binding and mu.
C6_Dispatch ==
  /\ last.op = "OnInsert" => last.applied = << Call("ApplyOnInsert", last.item) >>
  /\ last.op = "OnDelete" => last.applied = << Call("ApplyOnDelete", last.item) >>
  /\ last.op = "OnUpdate" => last.applied = << Call("ApplyOnUpdate", last.item) >>
  /\ last.op = "OnSample" => last.applied = << Call("ApplyOnSample", last.item) >>
  /\ last.op = "OnReset"  => last.applied = << Call("ApplyOnReset", NoItem) >>
  /\ last.op \in HookOps => last.item \in Items \cup {NoItem}
  /\ last.op \notin HookOps => last.applied = << >>

\* A hook dispatched on an unbound extension with a null mutex.
C6_Witness ==
  /\ last.op = "OnUpdate"
  /\ last.pre[last.ext] = NULL
  /\ last.mu = NULL
  /\ last.item = NumItems
  /\ last.applied = << Call("ApplyOnUpdate", NumItems) >>

\* C7: on an extension with no overrides a hook call changes nothing (the
\* table_ of every extension is what it was before the call) and returns.
C7_HooksNoEffect ==
  last.op \in HookOps
    => /\ table_ = last.pre
       /\ ~aborted
       /\ last.ret.code = "void"

C7_Witness ==
  /\ last.op = "OnReset"
  /\ table_[last.ext] \in Tables
  /\ table_ = last.pre

\* C10: the error of RegisterTable(T2) on an extension bound to T1 names T1
\* (pointer and name) as the table registered and T2 (pointer and name) as
\* the table requested.
C10_ErrorNamesBoth ==
  (last.op = "RegisterTable" /\ last.ret.code = "FailedPrecondition"
     /\ last.table \in Tables)
    => /\ last.ret.requested =
            [ptr |-> last.table, name |-> TableName(last.table)]
       /\ last.ret.registered =
            [ptr |-> last.pre[last.ext], name |-> TableName(last.pre[last.ext])]

----------------------------------------------------------------------------
(* Independent pairs, under SpecPairs. *)

\* C8 as stated: at all times the table_ of every pair's extension is the
\* table of its most recent successful RegisterTable.
C8_AlwaysLastRegistered ==
  \A i \in Pairs : table_[i] = lastReg[i]

\* C8, amended: the table_ of every pair's extension is the table of its
\* most recent successful RegisterTable until an UnregisterTable of it
\* returns, and null from then to its next successful RegisterTable (and
\* before the first); and a step changes the table_ of extension i only when
\* it is thread i's own write in RegisterTable (line 32) or UnregisterTable
\* (line 40), no other thread moving in that step.
C8_PairsIndependent ==
  /\ [](\A i \in Pairs :
          table_[i] = IF lastUnreg[i] THEN NULL ELSE lastReg[i])
  /\ [][\A i \in Pairs :
          table_'[i] # table_[i]
            => /\ pc[i] \in {"RegisterTable:32", "UnregisterTable:40"}
               /\ pc'[i] = "idle"
               /\ \A j \in Pairs \ {i} :
                    /\ pc'[j] = pc[j]
                    /\ frame'[j] = frame[j]
                    /\ table_'[j] = table_[j]]_vars

\* Every pair's extension is bound to its own table while two of the
\* threads are in the middle of calls.
C8_Witness ==
  /\ \A i \in Pairs : table_[i] = i /\ lastReg[i] = i /\ ~lastUnreg[i]
  /\ \E i, j \in Pairs :
       /\ i # j
       /\ pc[i] \in ApplyPcs
       /\ pc[j] = "RegisterTable:26"

----------------------------------------------------------------------------
(* Tables calling their extensions, under SpecTable. *)

InApply(e) == {t \in Threads : pc[t] \in ApplyPcs /\ frame[t].ext = e}

----------------------------------------------------------------------------
(* Calls from the extension into tables, under Spec. *)

\* C11 as stated: no method of the extension invokes a method of a table.
C11_NoTableCalls ==
  last.tcalls = << >>

\* C11, amended: the only calls the extension makes into a table are the
\* reads of the requested table's name() on RegisterTable's failure path, for
\* the error message; RegisterTable's success path, UnregisterTable, the
\* hooks and the default ApplyOn* bodies invoke no method of any table.
C11_OnlyNameOnFailure ==
  /\ last.tcalls # << >>
       => /\ last.op = "RegisterTable"
          /\ last.pre[last.ext] # NULL
          /\ last.ret.code \in {"FailedPrecondition", "crash"}
          /\ \A k \in 1..Len(last.tcalls) :
               last.tcalls[k] = TableCall(last.table, "name")
  /\ (last.op = "RegisterTable" /\ last.ret.code = "FailedPrecondition")
       => Len(last.tcalls) = 2

C11_Witness ==
  /\ last.op = "RegisterTable"
  /\ last.ret.code = "FailedPrecondition"
  /\ last.table \in Tables \ {last.pre[last.ext]}
  /\ last.tcalls = << TableCall(last.table, "name"), TableCall(last.table, "name") >>

----------------------------------------------------------------------------
(* What the hooks require of their caller, under Spec (where no mutex is   *)
(* ever held: the callers of Spec take no locks).                          *)

NotHeld(mu) == mu = NULL \/ mu_[mu] = NoThread

\* C12 as stated: the mutex argument enforces that the lock is held: a hook
\* called with a null mutex or one that is not held does not run ApplyOn*.
C12_LockEnforced ==
  (last.op \in HookOps /\ NotHeld(last.mu))
    => last.applied = << >>

\* C12, amended: the mutex argument documents that the caller holds the
\* table's lock and is not checked: a hook called with a null mutex or with
\* one that nobody holds runs its ApplyOn* once with the item, as it does for
\* any other caller, and returns.
C12_LockNotChecked ==
  (last.op \in HookOps /\ NotHeld(last.mu))
    => /\ Len(last.applied) = 1
       /\ last.applied[1].fn \in ApplyPcs
       /\ last.applied[1].item = last.item
       /\ last.ret.code = "void"
       /\ ~aborted

C12_Witness ==
  /\ last.op = "OnSample"
  /\ last.mu \in Tables
  /\ mu_[last.mu] = NoThread
  /\ last.applied = << Call("ApplyOnSample", last.item) >>

\* C13 as stated: ApplyOn* runs only on a bound extension.
C13_HooksOnlyWhileBound ==
  (last.op \in HookOps /\ last.applied # << >>)
    => last.pre[last.ext] \in Tables

\* C13, amended: the dispatch does not depend on the binding: a hook called
\* on an unbound extension (before any RegisterTable, or after an
\* UnregisterTable) runs its ApplyOn* and leaves the extension unbound.  Only
\* a caller that calls hooks of registered extensions alone keeps them
\* between Register and Unregister.
C13_HooksIgnoreBinding ==
  (last.op \in HookOps /\ last.pre[last.ext] = NULL)
    => /\ Len(last.applied) = 1
       /\ table_[last.ext] = NULL
       /\ ~aborted

C13_Witness ==
  /\ last.op = "OnInsert"
  /\ last.pre[last.ext] = NULL
  /\ last.applied = << Call("ApplyOnInsert", last.item) >>
  /\ table_[last.ext] = NULL

----------------------------------------------------------------------------
(* Who writes table_, and what RegisterTable and UnregisterTable return,   *)
(* under Spec.                                                             *)

\* C14: table_ is written by RegisterTable and UnregisterTable alone: a
\* hook call (with the default ApplyOn* bodies) leaves the table_ of every
\* extension and the holder of every mutex as they were, and the table_ of
\* an extension changes only from null to T by a RegisterTable(T) on it
\* that returns OK, or from T to null by an UnregisterTable(mu, T) on it.
C14_OnlyRegisterUnregisterWrite ==
  [][/\ \A e \in Exts :
          table_'[e] # table_[e]
            => \/ /\ table_[e] = NULL
                  /\ last'.op = "RegisterTable"
                  /\ last'.ext = e
                  /\ last'.table = table_'[e]
                  /\ last'.ret.code = "OK"
               \/ /\ table_[e] # NULL
                  /\ table_'[e] = NULL
                  /\ last'.op = "UnregisterTable"
                  /\ last'.ext = e
                  /\ last'.table = table_[e]
                  /\ last'.ret.code = "void"
     /\ last'.op \in HookOps => (table_' = table_ /\ mu_' = mu_)]_vars

\* A hook has just run on an extension that stays bound.
C14_Witness ==
  /\ last.op = "OnDelete"
  /\ last.pre[last.ext] \in Tables
  /\ table_[last.ext] = last.pre[last.ext]
  /\ last.mu = table_[last.ext]

\* C15 as stated: UnregisterTable returns only when the extension was bound
\* to the argument table; otherwise, and always on an unbound extension, the
\* process aborts.
C15_ReturnsOnlyWhenBound ==
  last.op = "UnregisterTable"
    => IF last.pre[last.ext] \in Tables /\ last.table = last.pre[last.ext]
         THEN last.ret.code = "void" /\ ~aborted
         ELSE last.ret.code = "abort" /\ aborted

\* C15, amended: UnregisterTable returns exactly when its argument equals
\* table_ before the call: the extension was bound to the argument table, or
\* it was unbound and the argument is null (it then stays unbound).  In
\* every other case, including UnregisterTable of any table on an unbound
\* extension, the process aborts and table_ is unchanged.
C15_ReturnsIffEqual ==
  last.op = "UnregisterTable"
    => IF last.table = last.pre[last.ext]
         THEN /\ last.ret.code = "void"
              /\ ~aborted
              /\ table_[last.ext] = NULL
         ELSE /\ last.ret.code = "abort"
              /\ aborted
              /\ table_ = last.pre

\* UnregisterTable of a table on an unbound extension has aborted.
C15_Witness ==
  /\ last.op = "UnregisterTable"
  /\ last.pre[last.ext] = NULL
  /\ last.table \in Tables
  /\ aborted

\* C16 as stated: when RegisterTable returns OK the extension is bound, to
\* the argument, whatever the argument (null included).
C16_SuccessMeansBound ==
  (last.op = "RegisterTable" /\ last.ret.code = "OK")
    => /\ table_[last.ext] # NULL
       /\ table_[last.ext] = last.table

\* C16, amended: when RegisterTable returns OK the extension was unbound
\* and table_ now equals the argument; it is bound if the argument is a
\* table.  RegisterTable(nullptr) on an unbound extension returns OK and
\* leaves it unbound: the non-null precondition is not checked.
C16_SuccessStoresArgument ==
  (last.op = "RegisterTable" /\ last.ret.code = "OK")
    => /\ last.pre[last.ext] = NULL
       /\ table_[last.ext] = last.table
       /\ last.table \in Tables => table_[last.ext] \in Tables
       /\ ~aborted

C16_Witness ==
  /\ last.op = "RegisterTable"
  /\ last.table = NULL
  /\ last.ret.code = "OK"
  /\ table_[last.ext] = NULL

----------------------------------------------------------------------------
(* Unserialized RegisterTable calls on one extension, under SpecRace. *)

Callers(e) == {t \in Threads : pc[t] # "idle" /\ frame[t].ext = e}
Returned(e) == {t \in Callers(e) : pc[t] = "returned"}
Succeeded(e) == {t \in Returned(e) : frame[t].ret = "OK"}

\* C17 as stated: of two unserialized RegisterTable calls of distinct tables
\* on the same (unbound) extension at most one returns OK.
C17_AtMostOneSucceeds ==
  \A e \in Exts : \A t1, t2 \in Succeeded(e) :
    frame[t1].table # frame[t2].table => t1 = t2

\* C17, amended: unserialized RegisterTable calls of distinct tables on an
\* unbound extension can all return OK; at least one does, a call fails only
\* with FailedPrecondition and only once another has bound the extension,
\* and whenever the extension is bound, and so once all calls have returned,
\* its table_ is the table of a call that returned OK (the last to write).
C17_RaceOutcome ==
  \A e \in Exts :
    /\ \A t \in Returned(e) : frame[t].ret \in {"OK", "FailedPrecondition"}
    /\ Returned(e) \ Succeeded(e) # {} => Succeeded(e) # {}
    /\ table_[e] # NULL
         => \E t \in Succeeded(e) : frame[t].table = table_[e]
    /\ (Callers(e) # {} /\ Callers(e) = Returned(e))
         => /\ Succeeded(e) # {}
            /\ table_[e] \in Tables

\* Two calls of distinct tables on one extension have both returned OK.
C17_Witness ==
  \E e \in Exts : \E t1, t2 \in Succeeded(e) :
    /\ frame[t1].table # frame[t2].table
    /\ table_[e] = frame[t2].table
    /\ Callers(e) = Returned(e)

====
